---- MODULE Spec2Model ----
(***************************************************************************)
(* Model of the connection pools of src/pool.go: connStack (the free       *)
(* list), connList (the registry), connPool (Get / Put / Remove / Close /  *)
(* reaper) and stickyConnPool.  Every goroutine is a process whose         *)
(* position (pc) and locals are part of the state; one action is one       *)
(* atomic operation, channel operation or mutex-protected section.  A dial *)
(* touches nothing shared, so it is taken together with the registry       *)
(* operation that follows it.  Goroutines have no identity of their own:   *)
(* the state holds the bag of their records.                               *)
(***************************************************************************)
EXTENDS Integers, Sequences, FiniteSets, Bags, TLC

\* ------------------------------------------------------------- bounds
\* Largest opt.getPoolSize() explored; the pool's capacity is 1..PoolSize.
PoolSize == 2
\* Number of Get calls, Close calls and reaper ticks started (a Put or a
\* Remove hands back a connection that one of the Get calls returned).
MaxOps == 3
\* Number of connections the dialer can produce; afterwards dials fail.
MaxConns == 3
\* Number of operations started on the sticky pool.
MaxStickyOps == 4
\* Number of hash slots explored (the program has 16384).
HashSlots == 3
\* Number of forceReload calls between reload checks, and of checks.
MaxReloads == 2

\* The caller goroutines.
Procs == {1, 2, 3}
\* The goroutines that share the sticky pool.
StickyProcs == {1, 2}

\* A nil *conn.
Nil == 0

VARIABLES
  cns,        \* connStack.cns: the free connections, top last
  free,       \* len(connStack.free): tokens in the buffered channel
  conns,      \* connList.cns: the registered connections
  listClosed, \* connList.cns == nil
  size,       \* connList.size
  max,        \* connList.max, cap(connStack.free)
  poolClosed, \* connPool._closed
  requests,   \* connPool.stats.Requests
  connClosed, \* connections whose Close() has been called
  stale,      \* connections with time.Since(cn.UsedAt) > idle timeout
  nextId,     \* the next connection the dialer returns
  idleOn,     \* opt.getIdleTimeout() > 0
  proc,       \* the bag of goroutines: position, locals, connection held
  ret,        \* what the operation that returned in the last step returned
  fault,      \* the panic that ended the program, if any
  ops,        \* Get calls, Close calls and reaper ticks still to start
  desynced,   \* history: connections handed to Put with unread bytes
  getCalls,   \* history: Get calls made
  getClosed,  \* history: Get calls made after _closed was set
  closeWon,   \* history: Close calls that went on to the shutdown
  pristine,   \* history: no dial has failed and no Put or Remove has begun
  sticky,     \* the stickyConnPool and its backing pool's call log
  cluster     \* the ClusterClient's slot table, addresses and reload flag

poolVars == <<cns, free, conns, listClosed, size, max, poolClosed, requests,
              connClosed, stale, nextId, idleOn, proc, ret, fault, ops,
              desynced, getCalls, getClosed, closeWon, pristine>>
vars == <<cns, free, conns, listClosed, size, max, poolClosed, requests,
          connClosed, stale, nextId, idleOn, proc, ret, fault, ops,
          desynced, getCalls, getClosed, closeWon, pristine, sticky,
          cluster>>

\* The fields of connStack, of connList, the options and the history.
stackVars == <<cns, free>>
listVars == <<conns, listClosed, size, connClosed>>
optVars == <<max, idleOn>>
histVars == <<desynced, getCalls, getClosed, closeWon>>

\* The other pools and clients, which connPool's operations leave alone.
otherVars == <<sticky, cluster>>

\* ------------------------------------------------------------ helpers
\* A pop that takes the oldest connection.
Oldest(s) == s[1]
Last(s) == s[Len(s)]
\* A pop that leaves the popped connection in the slice.
FrontKeepsLast(s) == s
Front(s) == SubSeq(s, 1, Len(s) - 1)
Range(s) == {s[k] : k \in 1..Len(s)}

\* A goroutine that runs nothing and holds nothing.
IdleProc == [pc |-> "idle", op |-> "none", mode |-> "none", cn |-> Nil,
             isNew |-> FALSE, i |-> 0, held |-> Nil, unread |-> FALSE,
             startedClosed |-> FALSE]

\* No operation returned in the last step.
NoRet == [op |-> "none", cn |-> Nil, isNew |-> FALSE, err |-> "",
          unread |-> FALSE, startedClosed |-> FALSE, dialed |-> "none",
          waited |-> FALSE, closeErrs |-> <<>>]

\* Operation r.op of goroutine r returns (cn, isNew, err); for Put and Remove
\* cn is the connection they pushed.  dialed is the outcome of the dial the
\* operation made, if it made one; waited tells a Get that returns from wait;
\* closeErrs are the connections whose Close failed in connList.Close, in
\* the order of its loop.
Ret(r, cn, isNew, err, dialed) ==
  [op |-> r.op, cn |-> cn, isNew |-> isNew, err |-> err,
   unread |-> r.unread, startedClosed |-> r.startedClosed,
   dialed |-> dialed, waited |-> (r.mode = "wait"), closeErrs |-> <<>>]

\* The reaper goroutine between two ticks.
ReaperProc == [pc |-> "r_sleep", op |-> "reaper", mode |-> "none", cn |-> Nil,
               isNew |-> FALSE, i |-> 0, held |-> Nil, unread |-> FALSE,
               startedClosed |-> FALSE]

\* The goroutines.
Goroutines == BagToSet(proc)

\* The number of goroutines in the set S of records.
NumberOf(S) == BagCardinality([r \in S |-> proc[r]])

\* Goroutine r becomes r2.
Step(r, r2) == proc' = (proc (-) SetToBag({r})) (+) SetToBag({r2})

\* connStack.Len
StackLen == free

\* connList.Len / connPool.Len
ListLen == size

\* connPool.FreeLen
FreeLen == StackLen

\* A pool that never reads as closed.
closedNever == FALSE

\* connPool.closed
closed == poolClosed = 1

\* A pool that takes no connection for idle.
isIdleNever(cn) == FALSE

\* connPool.isIdle
isIdle(cn) == idleOn /\ cn \in stale

\* connList.closed
listIsClosed == listClosed

\* ------------------------------------------------------ ClusterClient
\* The slots of the hash-slot space.
Slots == 0..(HashSlots - 1)

\* The addresses, in their sorted order; NoAddr is the empty string.
Addrs == {1, 2, 3}
NoAddr == 0

\* The seed addresses supplied at construction.
SeedAddrs == {2}

\* The address lists of the slot-range descriptors, master first.
AddrLists == {<<1>>, <<2, 3>>, <<3, 1>>}

\* The slot-range descriptors (startSlot, endSlot, addresses), and the
\* lists of them that update is given.
Descriptors ==
  {d \in [start : Slots, end : Slots, addrs : AddrLists] : d.start <= d.end}
RangeLists ==
  {<<>>} \cup {<<a>> : a \in Descriptors}
         \cup {<<a, b>> : a, b \in Descriptors}

\* The members of set S as a sequence in sorted order.
RECURSIVE SortedSeq(_)
SortedSeq(S) ==
  IF S = {} THEN <<>>
  ELSE LET m == CHOOSE x \in S : \A y \in S : x <= y
       IN <<m>> \o SortedSeq(S \ {m})

\* reset: every slot unassigned, the address set back to the seeds.
ClusterResetState(c) ==
  [c EXCEPT !.slots = [s \in Slots |-> <<>>],
            !.addrs = SortedSeq(SeedAddrs)]

\* NewClusterClient: the state reset leaves, the reload flag set, and the
\* descriptors in that the next update will be given.
ClusterInit(in) ==
  [slots |-> [s \in Slots |-> <<>>], addrs |-> SortedSeq(SeedAddrs),
   reload |-> 1, input |-> in,
   \* history: the descriptors applied since the last reset
   applied |-> <<>>,
   \* the retry loop of one command: the seen set it started with, its
   \* seen set now, and what its calls of next returned
   retrying |-> FALSE, tried |-> {}, seen |-> {}, returned |-> <<>>,
   \* history: forceReload calls since the last reload check, whether the
   \* last check found a reload due, and the number of checks
   forced |-> 0, due |-> FALSE, checks |-> 0]

\* ------------------------------------------------------------ initial
\* newConnStack, newConnList, newConnPool, newStickyConnPool
StickyInit(r) ==
  [cn |-> Nil, closed |-> FALSE, reusable |-> r,
   \* the backing pool: the next connection its Get returns, and the calls
   \* made on it
   nextCn |-> 1, gets |-> 0, puts |-> 0, removes |-> 0,
   \* the callers: the connection each obtained and has not handed back
   holders |-> [q \in StickyProcs |-> Nil],
   \* the last operation: its name, its results, the backing calls it made
   lastOp |-> "none", lastCn |-> Nil, lastErr |-> "", lastCalls |-> 0,
   calls |-> 0, fault |-> "none"]

PoolInit ==
  /\ cns = <<>>
  /\ free = 0
  /\ conns = {}
  /\ listClosed = FALSE
  /\ size = 0
  /\ max \in 1..PoolSize
  /\ poolClosed = 0
  /\ requests = 0
  /\ connClosed = {}
  /\ stale = {}
  /\ nextId = 1
  /\ idleOn \in BOOLEAN
  /\ proc = IF idleOn
            THEN [r \in {IdleProc, ReaperProc} |->
                    IF r = IdleProc THEN Cardinality(Procs) ELSE 1]
            ELSE [r \in {IdleProc} |-> Cardinality(Procs)]
  /\ ret = NoRet
  /\ fault = "none"
  /\ ops = MaxOps
  /\ desynced = {}
  /\ getCalls = 0
  /\ getClosed = 0
  /\ closeWon = 0
  /\ pristine = TRUE

Init == PoolInit /\ sticky = StickyInit(FALSE) /\ cluster = ClusterInit(<<>>)

\* ------------------------------------------------ connList (registry)
\* Reserve with a test that lets one connection too many in.
ReservedOffByOne(sz) == sz <= max + 1

\* Reserve without a limit.
ReservedAlways(sz) == TRUE

\* Reserve's test of the incremented size.
Reserved(sz) == sz <= max

\* Whether Remove / Replace finds cn in the map.
Found(cn) == cn \in conns

\* A Remove that deletes cn and leaves the size as it was.
ListRemoveKeepsSize(cn) ==
  /\ conns' = conns \ {cn}
  /\ size' = size
  /\ connClosed' = connClosed \cup {cn}
  /\ fault' = fault

\* connList.Remove(cn), cn not nil: the registry after it, or the panic.
ListRemove(cn) ==
  IF Found(cn)
  THEN /\ conns' = conns \ {cn}
       /\ size' = size - 1
       /\ connClosed' = connClosed \cup {cn}
       /\ fault' = fault
  ELSE /\ UNCHANGED <<conns, size, connClosed>>
       /\ fault' = IF listIsClosed THEN fault ELSE "conn not found in the list"

\* A Replace that adds newcn and leaves cn in the map.
ListReplaceAdds(cn, newcn) ==
  /\ conns' = conns \cup {newcn}
  /\ connClosed' = connClosed \cup {cn}
  /\ size' = size
  /\ fault' = fault

\* connList.Replace(cn, newcn): the registry after it, or the panic.
ListReplace(cn, newcn) ==
  IF Found(cn)
  THEN /\ conns' = (conns \ {cn}) \cup {newcn}
       /\ connClosed' = connClosed \cup {cn}
       /\ size' = size
       /\ fault' = fault
  ELSE /\ UNCHANGED <<conns, size>>
       /\ connClosed' = IF listIsClosed THEN connClosed \cup {newcn}
                        ELSE connClosed
       /\ fault' = IF listIsClosed THEN fault ELSE "conn not found in the list"

\* connList.Add: writing to the map that connList.Close set to nil panics.
ListAdd(cn) ==
  IF listIsClosed
  THEN /\ fault' = "assignment to entry in nil map"
       /\ conns' = conns
  ELSE /\ conns' = conns \cup {cn}
       /\ fault' = fault

\* ---------------------------------------------------------- connPool
\* A Put that takes every connection for clean.
HasUnreadIgnored(n) == FALSE

\* Put's test of cn.rd.Buffered().
HasUnread(n) == n # 0

\* The error Put builds for a connection with unread data.
DesyncErr == "connection has unread data"

\* The reason Remove is given: Put's error or the caller's.
Reason(r) == IF r.op = "Put" THEN DesyncErr ELSE "reason"

\* A Remove that returns the reason it was given.
RemoveErrReason(reason, err) == reason

\* The error Remove returns when replace failed: the error of replace.
RemoveErr(reason, err) == err

\* The outcomes of connPool.new: the limiter refuses, the dialer fails or
\* the dialer returns a connection (while the dialer has one to give).
DialOutcomes ==
  {"ratelimit", "dial"} \cup (IF nextId <= MaxConns THEN {"ok"} ELSE {})

Running == fault = "none"

At(r, pc) == Running /\ r.pc = pc

\* The goroutine after its operation returned: a caller is idle and holds
\* the connection held, the reaper sleeps.
Returned(r, held) ==
  IF r.op = "reaper" THEN ReaperProc ELSE [IdleProc EXCEPT !.held = held]

\* First / wait return connection c to their caller: Get returns it, the
\* reaper puts it back, Close counts it.
GotProc(r, c) ==
  CASE r.op = "Get" -> Returned(r, c)
    [] r.op = "reaper" ->
         [r EXCEPT !.pc = "push_app", !.cn = c, !.mode = "none"]
    [] OTHER ->
         [r EXCEPT !.pc = "c_loop", !.i = @ + 1, !.cn = Nil,
                         !.mode = "none"]

GotRet(r, c, dialed) ==
  IF r.op = "Get" THEN Ret(r, c, FALSE, "", dialed) ELSE NoRet

\* First / wait return nil to their caller: Get goes on to Reserve (after
\* First) or returns errPoolTimeout (after wait), the reaper sleeps, Close
\* stops draining.
NilProc(r) ==
  CASE r.op = "Get" /\ r.mode = "first" ->
         [r EXCEPT !.pc = "reserve", !.cn = Nil, !.mode = "none"]
    [] r.op = "Get" /\ r.mode = "wait" -> Returned(r, Nil)
    [] r.op = "reaper" -> Returned(r, Nil)
    [] OTHER ->
         [r EXCEPT !.pc = "c_close", !.cn = Nil, !.mode = "none"]

NilRet(r) ==
  IF r.op = "Get" /\ r.mode = "wait"
  THEN Ret(r, Nil, FALSE, "timeout", "none") ELSE NoRet

\* connStack.Pop (mode first) and connStack.PopWithTimeout (mode wait): the
\* select on the free channel.  A token is received when there is one;
\* otherwise Pop takes its default branch and PopWithTimeout its timer.
Pop(r) ==
  /\ At(r, "pop")
  /\ IF free > 0
     THEN /\ free' = free - 1
          /\ Step(r, [r EXCEPT !.pc = "take"])
          /\ ret' = NoRet
     ELSE /\ free' = free
          /\ Step(r, NilProc(r))
          /\ ret' = NilRet(r)
  /\ UNCHANGED <<pristine, cns, listVars, optVars, histVars, poolClosed,
                 requests, stale, nextId, fault, ops, otherVars>>

\* connStack.pop, then the isIdle test of First / wait.
pop(r) ==
  /\ At(r, "take")
  /\ IF cns = <<>>
     THEN /\ fault' = "index out of range"
          /\ UNCHANGED <<cns, proc>>
          /\ ret' = NoRet
     ELSE /\ cns' = Front(cns)
          /\ fault' = fault
          /\ IF isIdle(Last(cns))
             THEN /\ Step(r, [r EXCEPT !.pc = "replace",
                                          !.cn = Last(cns)])
                  /\ ret' = NoRet
             ELSE /\ Step(r, GotProc(r, Last(cns)))
                  /\ ret' = GotRet(r, Last(cns), "none")
  /\ UNCHANGED <<pristine, free, listVars, optVars, histVars, poolClosed,
                 requests, stale, nextId, ops, otherVars>>

\* connPool.replace: connPool.new (the dial), then connList.Remove of the old
\* connection when the dial failed and connList.Replace when it succeeded.
\* After an error First and wait pop again and Remove returns the error;
\* after a success First and wait return newcn and Remove pushes it.
replace(r) ==
  /\ At(r, "replace")
  /\ \E o \in DialOutcomes :
       /\ pristine' = (pristine /\ o = "ok")
       /\ IF o = "ok"
          THEN /\ nextId' = nextId + 1
               /\ ListReplace(r.cn, nextId)
               /\ IF fault' # "none"
                  THEN UNCHANGED proc /\ ret' = NoRet
                  ELSE IF r.mode = "remove"
                  THEN /\ Step(r, [r EXCEPT !.pc = "push_app",
                                               !.cn = nextId,
                                               !.mode = "none"])
                       /\ ret' = NoRet
                  ELSE /\ Step(r, GotProc(r, nextId))
                       /\ ret' = GotRet(r, nextId, "ok")
          ELSE /\ nextId' = nextId
               /\ ListRemove(r.cn)
               /\ IF fault' # "none"
                  THEN UNCHANGED proc /\ ret' = NoRet
                  ELSE IF r.mode = "remove"
                  THEN /\ Step(r, Returned(r, Nil))
                       /\ ret' = Ret(r, Nil, FALSE, RemoveErr(Reason(r), o), o)
                  ELSE /\ Step(r, [r EXCEPT !.pc = "pop", !.cn = Nil])
                       /\ ret' = NoRet
  /\ UNCHANGED <<stackVars, listClosed, optVars, histVars, poolClosed,
                 requests, stale, ops, otherVars>>

\* connStack.Push, first half: append under the mutex.
PushAppend(r) ==
  /\ At(r, "push_app")
  /\ cns' = Append(cns, r.cn)
  /\ Step(r, [r EXCEPT !.pc = "push_send"])
  /\ ret' = NoRet
  /\ UNCHANGED <<pristine, free, listVars, optVars, histVars, poolClosed,
                 requests, stale, nextId, fault, ops, otherVars>>

\* connStack.Push, second half: the send on the free channel (capacity max),
\* after which Put and Remove return nil and the reaper sleeps again.
PushSend(r) ==
  /\ At(r, "push_send")
  /\ free < max
  /\ free' = free + 1
  /\ Step(r, Returned(r, Nil))
  /\ ret' = IF r.op = "reaper" THEN NoRet
            ELSE Ret(r, r.cn, FALSE, "", IF r.op = "Put" /\ ~r.unread
                                         THEN "none" ELSE "ok")
  /\ UNCHANGED <<pristine, cns, listVars, optVars, histVars, poolClosed,
                 requests, stale, nextId, fault, ops, otherVars>>

\* ------------------------------------------------------ connPool.Get
\* A caller that holds nothing may start Get or Close.
CanStart(r) == At(r, "idle") /\ ops > 0 /\ r.held = Nil

\* A caller may hand back the connection it holds.
CanReturn(r) == At(r, "idle") /\ r.held # Nil

\* Get's closed test: errClosed, or the Requests counter is incremented (a
\* uint32, far from its wrap within MaxOps calls) and First is called.
Get(r) ==
  /\ CanStart(r)
  /\ ops' = ops - 1
  /\ getCalls' = getCalls + 1
  /\ getClosed' = IF poolClosed = 1 THEN getClosed + 1 ELSE getClosed
  /\ IF closed
     THEN /\ requests' = requests
          /\ proc' = proc
          /\ ret' = [Ret(r, Nil, FALSE, "closed", "none") EXCEPT !.op = "Get",
                        !.startedClosed = (poolClosed = 1)]
     ELSE /\ requests' = requests + 1
          /\ Step(r, [IdleProc EXCEPT !.op = "Get",
                                            !.pc = "pop", !.mode = "first",
                                            !.startedClosed = (poolClosed = 1)])
          /\ ret' = NoRet
  /\ UNCHANGED <<pristine, stackVars, listVars, optVars, poolClosed, stale,
                 nextId, fault, desynced, closeWon, otherVars>>

\* connList.Reserve, the increment and its test.
Reserve(r) ==
  /\ At(r, "reserve")
  /\ size' = size + 1
  /\ Step(r, [r EXCEPT !.pc = IF Reserved(size + 1) THEN "g_new"
                                    ELSE "unreserve",
                          !.isNew = Reserved(size + 1)])
  /\ ret' = NoRet
  /\ UNCHANGED <<pristine, stackVars, conns, listClosed, connClosed, optVars,
                 histVars, poolClosed, requests, stale, nextId, fault, ops,
                 otherVars>>

\* connList.Reserve, the rollback of a failed reservation; Get then waits.
ReserveRollback(r) ==
  /\ At(r, "unreserve")
  /\ size' = size - 1
  /\ Step(r, [r EXCEPT !.pc = "pop", !.mode = "wait"])
  /\ ret' = NoRet
  /\ UNCHANGED <<pristine, stackVars, conns, listClosed, connClosed, optVars,
                 histVars, poolClosed, requests, stale, nextId, fault, ops,
                 otherVars>>

\* Get with a place reserved: connPool.new, then p.conns.Remove(nil) and the
\* error when the dial failed, connList.Add and the connection otherwise.
GetNew(r) ==
  /\ At(r, "g_new")
  /\ \E o \in DialOutcomes :
       /\ pristine' = (pristine /\ o = "ok")
       /\ IF o = "ok"
          THEN /\ nextId' = nextId + 1
               /\ ListAdd(nextId)
               /\ size' = size
               /\ IF fault' # "none"
                  THEN UNCHANGED proc /\ ret' = NoRet
                  ELSE /\ Step(r, Returned(r, nextId))
                       /\ ret' = Ret(r, nextId, r.isNew, "", o)
          ELSE /\ nextId' = nextId
               /\ size' = size - 1
               /\ UNCHANGED <<conns, fault>>
               /\ Step(r, Returned(r, Nil))
               /\ ret' = Ret(r, Nil, r.isNew, o, o)
  /\ UNCHANGED <<stackVars, listClosed, connClosed, optVars, histVars,
                 poolClosed, requests, stale, ops, otherVars>>

\* ------------------------------------------- connPool.Put / Remove
\* Put(cn) of the connection the caller holds, with n unread bytes: on to
\* Remove or to Push.
Put(r) ==
  /\ CanReturn(r)
  /\ \E n \in {0, 1} :
       /\ desynced' = IF n # 0 THEN desynced \cup {r.held} ELSE desynced
       /\ Step(r, [IdleProc EXCEPT !.op = "Put", !.cn = r.held,
                      !.unread = (n # 0),
                      !.pc = IF HasUnread(n) THEN "replace" ELSE "push_app",
                      !.mode = IF HasUnread(n) THEN "remove" ELSE "none"])
  /\ ret' = NoRet
  /\ pristine' = FALSE
  /\ UNCHANGED <<stackVars, listVars, optVars, getCalls, getClosed, closeWon,
                 poolClosed, requests, stale, nextId, fault, ops, otherVars>>

\* Remove(cn, reason) of the connection the caller holds: on to replace.
Remove(r) ==
  /\ CanReturn(r)
  /\ Step(r, [IdleProc EXCEPT !.op = "Remove",
                         !.pc = "replace", !.mode = "remove",
                         !.cn = r.held])
  /\ ret' = NoRet
  /\ pristine' = FALSE
  /\ UNCHANGED <<stackVars, listVars, optVars, histVars, poolClosed,
                 requests, stale, nextId, fault, ops, otherVars>>

\* ---------------------------------------------------- connPool.Close
\* A compare-and-swap that always succeeds.
CasAlways == TRUE

\* The compare-and-swap of _closed.
CasClosed == poolClosed = 0

\* Close, called by a caller that holds a connection or by one that holds
\* none: errClosed when the compare-and-swap fails, else on to the drain.
Close(r) ==
  /\ CanStart(r) \/ (CanReturn(r) /\ ops > 0)
  /\ ops' = ops - 1
  /\ IF CasClosed
     THEN /\ poolClosed' = 1
          /\ closeWon' = closeWon + 1
          /\ Step(r, [IdleProc EXCEPT !.op = "Close",
                                 !.pc = "c_loop", !.held = r.held])
          /\ ret' = NoRet
     ELSE /\ UNCHANGED <<poolClosed, closeWon, proc>>
          /\ ret' = [Ret(r, Nil, FALSE, "closed", "none") EXCEPT !.op = "Close"]
  /\ UNCHANGED <<pristine, stackVars, listVars, optVars, requests, stale,
                 nextId, fault, desynced, getCalls, getClosed, otherVars>>

\* Close's loop test i < p.Len(): wait for one more connection, or go on.
CloseLoop(r) ==
  /\ At(r, "c_loop")
  /\ Step(r, [r EXCEPT !.pc = IF r.i < ListLen THEN "pop"
                                    ELSE "c_close",
                          !.mode = IF r.i < ListLen THEN "wait"
                                      ELSE "none"])
  /\ ret' = NoRet
  /\ UNCHANGED <<pristine, stackVars, listVars, optVars, histVars, poolClosed,
                 requests, stale, nextId, fault, ops, otherVars>>

\* The orders in which a range over the map may visit the connections.
Orders(S) ==
  {o \in [1..Cardinality(S) -> S] : \A i, j \in DOMAIN o : o[i] = o[j] => i = j}

\* The error cn.Close() returns when closing connection cn fails.
CloseErr(cn) == "close " \o ToString(cn)

\* The error connList.Close returns after the failures errs, in the order
\* met: retErr is assigned at each failure, so the last of them.
RetErr(errs) == IF errs = <<>> THEN "" ELSE CloseErr(Last(errs))

\* connList.Close: every registered connection is closed, in the order of
\* the range over the map and whether or not its Close fails; the map
\* becomes nil and the size 0; connPool.Close returns retErr.
ListClose(r) ==
  /\ At(r, "c_close")
  /\ connClosed' = connClosed \cup conns
  /\ conns' = {}
  /\ listClosed' = TRUE
  /\ size' = 0
  /\ Step(r, Returned(r, r.held))
  /\ \E order \in Orders(conns), failing \in SUBSET conns :
       LET errs == SelectSeq(order, LAMBDA c : c \in failing)
       IN ret' = [Ret(r, Nil, FALSE, RetErr(errs), "none")
                    EXCEPT !.closeErrs = errs]
  /\ UNCHANGED <<pristine, stackVars, optVars, histVars, poolClosed, requests,
                 stale, nextId, fault, ops, otherVars>>

\* --------------------------------------------------- connPool.reaper
\* A tick of the reaper: it ends when the pool is closed, else calls First.
reaper(r) ==
  /\ At(r, "r_sleep")
  /\ ops > 0
  /\ ops' = ops - 1
  /\ Step(r, [r EXCEPT !.pc = IF closed THEN "r_done" ELSE "pop",
                          !.mode = IF closed THEN "none" ELSE "first"])
  /\ ret' = NoRet
  /\ UNCHANGED <<pristine, stackVars, listVars, optVars, histVars, poolClosed,
                 requests, stale, nextId, fault, otherVars>>

\* Time passes: a free connection has not been used for the idle timeout.
Age ==
  /\ Running
  /\ idleOn
  /\ \E c \in Range(cns) \ stale : stale' = stale \cup {c}
  /\ ret' = NoRet
  /\ UNCHANGED <<pristine, stackVars, listVars, optVars, histVars, poolClosed,
                 requests, nextId, proc, fault, ops, otherVars>>

Next ==
  \/ \E r \in Goroutines : Get(r)
  \/ \E r \in Goroutines : Reserve(r)
  \/ \E r \in Goroutines : ReserveRollback(r)
  \/ \E r \in Goroutines : GetNew(r)
  \/ \E r \in Goroutines : Put(r)
  \/ \E r \in Goroutines : Remove(r)
  \/ \E r \in Goroutines : Close(r)
  \/ \E r \in Goroutines : CloseLoop(r)
  \/ \E r \in Goroutines : ListClose(r)
  \/ \E r \in Goroutines : Pop(r)
  \/ \E r \in Goroutines : pop(r)
  \/ \E r \in Goroutines : replace(r)
  \/ \E r \in Goroutines : PushAppend(r)
  \/ \E r \in Goroutines : PushSend(r)
  \/ \E r \in Goroutines : reaper(r)
  \/ Age

Spec == Init /\ [][Next]_vars

\* The scheduler runs every goroutine that can take a step: a step inside an
\* operation that stays possible is taken.  Calls (Get, Put, Remove, Close),
\* reaper ticks and ageing are up to the callers and the clock.
Fairness ==
  /\ WF_vars(\E r \in Goroutines : Reserve(r))
  /\ WF_vars(\E r \in Goroutines : ReserveRollback(r))
  /\ WF_vars(\E r \in Goroutines : GetNew(r))
  /\ WF_vars(\E r \in Goroutines : CloseLoop(r))
  /\ WF_vars(\E r \in Goroutines : ListClose(r))
  /\ WF_vars(\E r \in Goroutines : Pop(r))
  /\ WF_vars(\E r \in Goroutines : pop(r))
  /\ WF_vars(\E r \in Goroutines : replace(r))
  /\ WF_vars(\E r \in Goroutines : PushAppend(r))
  /\ WF_vars(\E r \in Goroutines : PushSend(r))

LiveSpec == Spec /\ Fairness

\* ---------------------------------------------------- stickyConnPool
\* The pool's state: closed, bound (a connection is pinned) or unbound.
StickyState ==
  IF sticky.closed THEN "closed"
  ELSE IF sticky.cn # Nil THEN "bound" ELSE "unbound"

\* A Get that never finds a connection pinned.
PinnedNever == FALSE

\* Get's test p.cn != nil.
Pinned == sticky.cn # Nil

StickyCanStart(q) == sticky.fault = "none" /\ sticky.calls < MaxStickyOps

\* The results of an operation on the backing pool: nil or an error.
BackingErrs == {"", "backing"}

\* stickyConnPool.Get by caller q: errClosed, the pinned connection, or the
\* connection (or the error) of the backing pool's Get.
StickyGet(q) ==
  /\ StickyCanStart(q)
  /\ sticky.holders[q] = Nil
  /\ IF sticky.closed
     THEN sticky' = [sticky EXCEPT !.calls = @ + 1, !.lastOp = "Get",
                       !.lastCn = Nil, !.lastErr = "closed", !.lastCalls = 0]
     ELSE IF Pinned
     THEN sticky' = [sticky EXCEPT !.calls = @ + 1, !.lastOp = "Get",
                       !.lastCn = sticky.cn, !.lastErr = "", !.lastCalls = 0,
                       !.holders[q] = sticky.cn]
     ELSE \E e \in BackingErrs :
            sticky' = [sticky EXCEPT !.calls = @ + 1, !.lastOp = "Get",
                         !.gets = @ + 1, !.lastCalls = 1, !.lastErr = e,
                         !.nextCn = IF e = "" THEN @ + 1 ELSE @,
                         !.lastCn = IF e = "" THEN sticky.nextCn ELSE Nil,
                         !.cn = IF e = "" THEN sticky.nextCn ELSE Nil,
                         !.holders[q] = IF e = "" THEN sticky.nextCn ELSE Nil]
  /\ UNCHANGED <<poolVars, cluster>>

\* stickyConnPool.put: the backing pool's Put of the pinned connection.
stickyPut(e) ==
  [sticky EXCEPT !.puts = @ + 1, !.cn = Nil, !.lastErr = e, !.lastCalls = 1]

\* A remove that hands the pinned connection to the backing pool's Put.
stickyRemoveByPut(e) ==
  [sticky EXCEPT !.puts = @ + 1, !.cn = Nil, !.lastErr = e, !.lastCalls = 1]

\* stickyConnPool.remove: the backing pool's Remove of the pinned connection.
stickyRemove(e) ==
  [sticky EXCEPT !.removes = @ + 1, !.cn = Nil, !.lastErr = e, !.lastCalls = 1]

\* stickyConnPool.Put(cn) of the connection caller q obtained: errClosed, a
\* panic when cn is not the pinned connection, else nil.
StickyPut(q) ==
  /\ StickyCanStart(q)
  /\ sticky.holders[q] # Nil
  /\ sticky' =
       IF sticky.closed
       THEN [sticky EXCEPT !.calls = @ + 1, !.lastOp = "Put", !.lastCn = Nil,
               !.lastErr = "closed", !.lastCalls = 0, !.holders[q] = Nil]
       ELSE IF sticky.cn # sticky.holders[q]
       THEN [sticky EXCEPT !.fault = "p.cn != cn"]
       ELSE [sticky EXCEPT !.calls = @ + 1, !.lastOp = "Put", !.lastCn = Nil,
               !.lastErr = "", !.lastCalls = 0, !.holders[q] = Nil]
  /\ UNCHANGED <<poolVars, cluster>>

\* stickyConnPool.Remove(cn, reason) of the connection caller q obtained:
\* errClosed, a panic when nothing is pinned or cn is not the pinned
\* connection, else remove.
StickyRemove(q) ==
  /\ StickyCanStart(q)
  /\ sticky.holders[q] # Nil
  /\ IF sticky.closed
     THEN sticky' = [sticky EXCEPT !.calls = @ + 1, !.lastOp = "Remove",
                       !.lastCn = Nil, !.lastErr = "closed", !.lastCalls = 0,
                       !.holders[q] = Nil]
     ELSE IF sticky.cn = Nil
     THEN sticky' = [sticky EXCEPT !.fault = "p.cn == nil"]
     ELSE IF sticky.cn # sticky.holders[q]
     THEN sticky' = [sticky EXCEPT !.fault = "p.cn != cn"]
     ELSE \E e \in BackingErrs :
            sticky' = [stickyRemove(e) EXCEPT !.calls = @ + 1,
                         !.lastOp = "Remove", !.lastCn = Nil,
                         !.holders[q] = Nil]
  /\ UNCHANGED <<poolVars, cluster>>

\* stickyConnPool.Close: errClosed, else the pool is closed and the pinned
\* connection, if any, goes to put (reusable) or to remove.
StickyClose(q) ==
  /\ StickyCanStart(q)
  /\ IF sticky.closed
     THEN sticky' = [sticky EXCEPT !.calls = @ + 1, !.lastOp = "Close",
                       !.lastCn = Nil, !.lastErr = "closed", !.lastCalls = 0]
     ELSE IF sticky.cn = Nil
     THEN sticky' = [sticky EXCEPT !.calls = @ + 1, !.lastOp = "Close",
                       !.lastCn = Nil, !.lastErr = "", !.lastCalls = 0,
                       !.closed = TRUE]
     ELSE \E e \in BackingErrs :
            sticky' = [(IF sticky.reusable THEN stickyPut(e)
                        ELSE stickyRemove(e))
                       EXCEPT !.calls = @ + 1, !.lastOp = "Close",
                              !.lastCn = Nil, !.closed = TRUE]
  /\ UNCHANGED <<poolVars, cluster>>

\* A sticky pool over a backing pool that the callers do not use directly.
StickySpecInit ==
  /\ PoolInit
  /\ max = PoolSize
  /\ idleOn = FALSE
  /\ \E r \in BOOLEAN : sticky = StickyInit(r)
  /\ cluster = ClusterInit(<<>>)

StickyNext ==
  \/ \E q \in StickyProcs : StickyGet(q)
  \/ \E q \in StickyProcs : StickyPut(q)
  \/ \E q \in StickyProcs : StickyRemove(q)
  \/ \E q \in StickyProcs : StickyClose(q)

StickySpec == StickySpecInit /\ [][StickyNext]_vars

\* ------------------------------------------- ClusterClient operations
\* Whether slot s lies in descriptor d's range, both endpoints included.
ContainsExclusive(d, s) == d.start <= s /\ s < d.end
Contains(d, s) == d.start <= s /\ s <= d.end

\* The address set after adding the addresses of list new: deduplicated,
\* kept in sorted order.
AddAddrsAppended(as, new) ==
  as \o SelectSeq(new, LAMBDA a : a \notin Range(as))
AddAddrs(as, new) == SortedSeq(Range(as) \cup Range(new))

\* update, for one descriptor and for a list of them in the order given.
UpdateOne(c, d) ==
  [c EXCEPT !.slots = [s \in Slots |->
                         IF Contains(d, s) THEN d.addrs ELSE c.slots[s]],
            !.addrs = AddAddrs(c.addrs, d.addrs)]
RECURSIVE update(_, _)
update(c, ranges) ==
  IF ranges = <<>> THEN c
  ELSE update(UpdateOne(c, Head(ranges)), Tail(ranges))

\* GetMasterAddrBySlot: the first address of the slot's entry, or empty.
GetMasterAddrBySlot(c, s) ==
  IF Len(c.slots[s]) > 0 THEN c.slots[s][1] ELSE NoAddr

\* next(seen): the first address, in the set's order, that is not in seen.
next(c, seen) ==
  LET unseen == SelectSeq(c.addrs, LAMBDA a : a \notin seen)
  IN IF unseen = <<>> THEN NoAddr ELSE unseen[1]

\* A topology change abandons the bookkeeping of the retry loop in hand.
NoRetry(c) ==
  [c EXCEPT !.retrying = FALSE, !.tried = {}, !.seen = {}, !.returned = <<>>]

\* reset(), before a rebuild.
ClusterReset ==
  /\ cluster' = [NoRetry(ClusterResetState(cluster)) EXCEPT !.applied = <<>>]
  /\ UNCHANGED <<poolVars, sticky>>

\* update(ranges) with the descriptors of the latest topology.
ClusterUpdate ==
  /\ cluster' = [NoRetry(update(cluster, cluster.input))
                   EXCEPT !.applied = cluster.input]
  /\ UNCHANGED <<poolVars, sticky>>

\* A command starts its retry loop with the addresses it has tried.
ClusterRetry(seen) ==
  /\ ~cluster.retrying
  /\ cluster' = [cluster EXCEPT !.retrying = TRUE, !.tried = seen,
                                 !.seen = seen, !.returned = <<>>]
  /\ UNCHANGED <<poolVars, sticky>>

\* The loop asks next(seen) for a candidate and adds it to seen; the
\* loop ends when next returns empty.
ClusterNext ==
  /\ cluster.retrying
  /\ LET addr == next(cluster, cluster.seen)
     IN cluster' = [cluster EXCEPT
                      !.returned = Append(@, addr),
                      !.seen = IF addr = NoAddr THEN @ ELSE @ \cup {addr},
                      !.retrying = (addr # NoAddr)]
  /\ UNCHANGED <<poolVars, sticky>>

\* forceReload(): store needs-reload in the flag.
forceReloadToggles(flag) == 1 - flag
forceReload(flag) == 1
ClusterForceReload ==
  /\ cluster.forced < MaxReloads
  /\ cluster' = [cluster EXCEPT !.reload = forceReload(@),
                                 !.forced = @ + 1]
  /\ UNCHANGED <<poolVars, sticky>>

\* The reload check: compare-and-swap the flag from set to clear; the
\* caller reloads the topology when the swap succeeded.
ClusterReloadDue ==
  /\ cluster.checks < MaxReloads
  /\ cluster' = [cluster EXCEPT !.reload = 0,
                                 !.due = (cluster.reload = 1),
                                 !.forced = 0,
                                 !.checks = @ + 1]
  /\ UNCHANGED <<poolVars, sticky>>

ClusterSpecInit ==
  /\ PoolInit /\ max = PoolSize /\ ~idleOn
  /\ sticky = StickyInit(FALSE)
  /\ \E in \in RangeLists : cluster = ClusterInit(in)

ClusterStep ==
  \/ ClusterReset
  \/ ClusterUpdate
  \/ \E seen \in SUBSET Addrs : ClusterRetry(seen)
  \/ ClusterNext
  \/ ClusterForceReload
  \/ ClusterReloadDue

ClusterSpec == ClusterSpecInit /\ [][ClusterStep]_vars

\* --------------------------------------------------------- properties
\* The Get calls between Reserve's increment and its rollback.
Overshooting == {r \in Goroutines : r.pc = "unreserve"}

\* C1 as stated: in every reachable state Len() <= the configured capacity
\* and FreeLen() <= Len().
C1_AsStated == ListLen <= max /\ FreeLen <= ListLen

\* C1, amended: Len() exceeds the capacity by at most the number of Get
\* calls that are between Reserve's increment and its rollback, and until
\* Close has closed the registry FreeLen() <= the number of registered
\* connections <= Len().
C1_LenBounds ==
  /\ ListLen <= max + NumberOf(Overshooting)
  /\ ~listClosed =>
       (FreeLen <= Cardinality(conns) /\ Cardinality(conns) <= ListLen)

\* C1 witness: a full pool with an idle connection while a Get call has
\* incremented the size past the capacity and not yet rolled back.
C1_Witness ==
  /\ ~listClosed
  /\ Overshooting # {}
  /\ ListLen = max + 1
  /\ FreeLen >= 1

\* ------------------------------------------------------------ C2
\* The connections the dialer has created so far.
Created == 1..(nextId - 1)

\* How many times connection c is on the free list.
OnFree(c) == Cardinality({k \in 1..Len(cns) : cns[k] = c})

\* How many goroutines have connection c in hand: callers that obtained it
\* and have not handed it back, and operations that carry it (a Push that
\* appended it has let go of it).
Holders(c) ==
  NumberOf({r \in Goroutines :
              r.held = c \/ (r.cn = c /\ r.pc # "push_send")})

IsClosed(c) == c \in connClosed

\* C2 as stated: at every instant each connection created by the pool is in
\* exactly one ownership state: on the free list once, in the hands of
\* exactly one caller, or closed.
C2_AsStated ==
  Running => \A c \in Created :
    \/ OnFree(c) = 1 /\ Holders(c) = 0 /\ ~IsClosed(c)
    \/ OnFree(c) = 0 /\ Holders(c) = 1 /\ ~IsClosed(c)
    \/ OnFree(c) = 0 /\ Holders(c) = 0 /\ IsClosed(c)

\* C2, amended: a connection is never shared -- it is on the free list at
\* most once or in the hands of at most one goroutine, never both -- and a
\* connection that Get returns is in the hands of its caller only; while
\* Close has not been called a connection is closed exactly when nobody
\* owns it.
C2_NeverShared ==
  /\ \A c \in Created : OnFree(c) + Holders(c) <= 1
  /\ (ret.op = "Get" /\ ret.cn # Nil) =>
        (OnFree(ret.cn) = 0 /\ Holders(ret.cn) = 1)
  /\ (Running /\ ~closed) =>
        \A c \in Created : IsClosed(c) <=> (OnFree(c) + Holders(c) = 0)

\* Get returns a connection taken from the free list while another caller
\* holds a connection and a third connection has been closed.
C2_Witness ==
  /\ ret.op = "Get" /\ ret.cn # Nil /\ ~ret.isNew /\ ~closed
  /\ \E c \in Created : c # ret.cn /\ Holders(c) = 1 /\ ~IsClosed(c)
  /\ \E c \in Created : IsClosed(c)

\* ------------------------------------------------------------ C3
\* Some operation still carries connection c.
Carried(c) == \E r \in Goroutines : r.cn = c

\* C3: a connection handed to Put with unread bytes is never on the free
\* list, is never held again and is never returned by a Get, and once the
\* Put is over it is closed and out of the registry, whatever the outcome
\* of the replacement dial.
C3_DesyncedDestroyed ==
  \A c \in desynced :
    /\ OnFree(c) = 0
    /\ ~(ret.op = "Get" /\ ret.cn = c)
    /\ \A r \in Goroutines : r.held # c
    /\ ~Carried(c) => (IsClosed(c) /\ c \notin conns)

\* Two connections were handed to Put with unread bytes, the replacement
\* dial failed for one and succeeded for the other, and a later Get took
\* the replacement from the free list.
C3_Witness ==
  /\ Cardinality(desynced) = 2
  /\ \A c \in desynced : ~Carried(c)
  /\ Cardinality(conns) = 1
  /\ ret.op = "Get" /\ ret.cn \in conns /\ ~ret.isNew /\ ret.dialed = "none"

CleanPutReturned ==
  ret.op = "Put" /\ ~ret.unread /\ ~closed /\ ret.cn \notin stale

\* A Get has just returned a connection it took from the free list without
\* dialing.
FreeListHit ==
  ret.op = "Get" /\ ret.cn # Nil /\ ret.dialed = "none" /\ ~ret.isNew

\* C5 as stated: when such a Put returns the connection is on the free list.
C5_AsStated == CleanPutReturned => OnFree(ret.cn) = 1

\* C5, amended: when such a Put returns the connection is not lost -- it is
\* on the free list, open and registered, unless a goroutine has already
\* taken it from the free list (and has it in hand, or has had it closed) --
\* and a Get that returns a connection without dialing takes the one pushed
\* last from the free list and returns it with isNew = false.
C5_NotLostLifo ==
  /\ [](CleanPutReturned =>
          \/ OnFree(ret.cn) = 1 /\ Holders(ret.cn) = 0
                /\ ~IsClosed(ret.cn) /\ ret.cn \in conns
          \/ OnFree(ret.cn) = 0 /\ Holders(ret.cn) = 1 /\ ~IsClosed(ret.cn)
          \/ OnFree(ret.cn) = 0 /\ Holders(ret.cn) = 0 /\ IsClosed(ret.cn))
  /\ [][(ret'.op = "Get" /\ ret'.cn # Nil /\ ret'.dialed = "none")
          => /\ cns # <<>>
             /\ ret'.cn = cns[Len(cns)]
             /\ cns' = SubSeq(cns, 1, Len(cns) - 1)
             /\ ~ret'.isNew]_vars

\* Two connections were put back clean, 1 first and 2 last, and a Get has
\* just taken 2 from the free list and left 1 on it.
C5_Witness ==
  FreeListHit /\ ret.cn = 2 /\ cns = <<1>> /\ ~closed /\ connClosed = {}

\* ------------------------------------------------------------ C6
\* The places of the registry that are taken: reserved by a Get that is
\* dialing, or filled by a connection.
Placed == ListLen - NumberOf(Overshooting)

\* Connection c is open, registered and in the hands of one caller only.
Valid(c) ==
  /\ ~IsClosed(c) /\ c \in conns
  /\ OnFree(c) = 0 /\ Holders(c) = 1

C7_AsStated == requests = getCalls

\* C7, amended: Requests equals the number of Get calls made while the pool
\* was not closed; a Get on a closed pool returns errClosed and leaves
\* Requests as it is.
C7_RequestsCountOpenGets ==
  /\ requests = getCalls - getClosed
  /\ (ret.op = "Get" /\ ret.startedClosed) => getClosed >= 1

\* Gets were made before and after Close; the one after Close has just
\* returned errClosed.
C7_Witness ==
  /\ ret.op = "Get" /\ ret.err = "closed"
  /\ getCalls = 2 /\ getClosed = 1 /\ requests = 1

\* ------------------------------------------------------------ C8
\* The Close calls that are in their shutdown sequence.
Closing == {r \in Goroutines : r.op = "Close"}

\* C8: at most one Close call wins the compare-and-swap and performs the
\* shutdown, every other Close returns errClosed, a Get that starts after
\* _closed was set returns errClosed and no connection, and _closed is never
\* reset.
C8_CloseOnce ==
  /\ [](/\ closeWon = poolClosed
        /\ NumberOf(Closing) <= 1
        /\ NumberOf(Closing) = 1 => (closed /\ ~listClosed)
        /\ ret.op = "Close" =>
              \/ ret.err = "closed" /\ closed
              \/ ret.err # "closed" /\ closed /\ listClosed
                   /\ NumberOf(Closing) = 0
        /\ (ret.op = "Get" /\ ret.startedClosed) =>
              (ret.err = "closed" /\ ret.cn = Nil))
  /\ [][poolClosed = 1 => poolClosed' = 1]_vars
  /\ [][listClosed => listClosed']_vars

\* After a Close that performed the shutdown, a Get returned errClosed and
\* a second Close has just returned errClosed.
C8_Witness ==
  /\ ret.op = "Close" /\ ret.err = "closed"
  /\ closeWon = 1 /\ listClosed /\ getClosed = 1

\* ------------------------------------------------------------ C9
\* Some Get call has not returned yet.
GetRunning == \E r \in Goroutines : r.op = "Get"

\* C9 as stated: in every interleaving, concurrent Close included, every Get
\* call eventually returns a connection or an error.
C9_AsStated == GetRunning ~> ~GetRunning

\* A Get call ends otherwise than by returning only when the program
\* panics.
C9_ReturnsUnlessPanic == GetRunning ~> (~GetRunning \/ ~Running)

\* A Get reserved a place, a concurrent Close closed the registry, and the
\* Get's connList.Add wrote to the nil map: the program panicked with the
\* Get call unreturned.
C9_Witness ==
  /\ fault = "assignment to entry in nil map"
  /\ listClosed /\ closed
  /\ \E r \in Goroutines : r.op = "Get" /\ r.pc = "g_new"

StickyReturned == sticky'.calls = sticky.calls + 1

\* C11: the Close that finds the sticky pool open and bound closes it and
\* hands the pinned connection to the backing pool once, through Put when
\* reusable and through Remove otherwise; a Close on an open unbound pool
\* closes it without a call on the backing pool; every operation on a
\* closed pool returns errClosed and makes no call on the backing pool; the
\* backing pool's Put is called at most once.
C11_CloseReleasesOnce ==
  /\ [](sticky.puts <= 1 /\ (sticky.closed => sticky.cn = Nil))
  /\ [][(StickyReturned /\ sticky.closed) =>
          /\ sticky'.lastErr = "closed" /\ sticky'.lastCalls = 0
          /\ sticky'.gets = sticky.gets /\ sticky'.puts = sticky.puts
          /\ sticky'.removes = sticky.removes
          /\ sticky'.closed /\ sticky'.cn = Nil]_vars
  /\ [][(StickyReturned /\ ~sticky.closed /\ sticky'.lastOp = "Close") =>
          /\ sticky'.closed /\ sticky'.cn = Nil
          /\ sticky'.gets = sticky.gets
          /\ IF sticky.cn = Nil
             THEN /\ sticky'.lastCalls = 0 /\ sticky'.lastErr = ""
                  /\ sticky'.puts = sticky.puts
                  /\ sticky'.removes = sticky.removes
             ELSE /\ sticky'.lastCalls = 1
                  /\ sticky'.puts =
                       sticky.puts + (IF sticky.reusable THEN 1 ELSE 0)
                  /\ sticky'.removes =
                       sticky.removes + (IF sticky.reusable THEN 0 ELSE 1)]_vars

\* A Close released the pinned connection of a pool that is not reusable
\* through the backing pool's Remove, and a second Close has just returned
\* errClosed.
C11_Witness ==
  /\ sticky.closed /\ ~sticky.reusable
  /\ sticky.gets = 1 /\ sticky.removes = 1 /\ sticky.puts = 0
  /\ sticky.lastOp = "Close" /\ sticky.lastErr = "closed"
  /\ sticky.calls = 3

\* ----------------------------------------------------------- C12
\* The descriptors of list ranges whose range holds slot s, both
\* endpoints included.
Holding(ranges, s) ==
  {i \in DOMAIN ranges : ranges[i].start <= s /\ s <= ranges[i].end}
NonOverlapping(ranges) ==
  \A s \in Slots : Cardinality(Holding(ranges, s)) <= 1

\* C12: after reset and update(ranges) with non-overlapping inclusive
\* ranges, in whatever order they are given, GetMasterAddrBySlot(s) is,
\* for every slot s, the first address of the range that holds s (its two
\* endpoints included) and the empty string when no range holds s, which
\* is the case of every slot before any update.
C12_MasterOfRange ==
  NonOverlapping(cluster.applied) =>
    \A s \in Slots :
      IF Holding(cluster.applied, s) = {}
      THEN GetMasterAddrBySlot(cluster, s) = NoAddr
      ELSE \A i \in Holding(cluster.applied, s) :
             GetMasterAddrBySlot(cluster, s) = cluster.applied[i].addrs[1]

\* Two ranges given out of order, and the start and end slots of the one
\* given second looked up.
C12_Witness ==
  /\ Len(cluster.applied) = 2
  /\ NonOverlapping(cluster.applied)
  /\ cluster.applied[2].end < cluster.applied[1].start
  /\ cluster.applied[2].start < cluster.applied[2].end
  /\ cluster.applied[1].addrs[1] # cluster.applied[2].addrs[1]
  /\ GetMasterAddrBySlot(cluster, cluster.applied[2].start)
       = cluster.applied[2].addrs[1]
  /\ GetMasterAddrBySlot(cluster, cluster.applied[2].end)
       = cluster.applied[2].addrs[1]

\* ----------------------------------------------------------- C13
\* The address set, and what the calls of next have returned before the
\* empty string.
AddressSet == Range(cluster.addrs)
Candidates ==
  SelectSeq(cluster.returned, LAMBDA a : a # NoAddr)

Checked == cluster'.checks = cluster.checks + 1

\* C14: forceReload coalesces.  After one forceReload or several, made
\* since the last reload check, the flag is set; the check that follows
\* finds one reload due, whatever the number of calls, and clears the
\* flag; from then on the flag is clear, and a further check finds no
\* reload due, until forceReload is called again.
C14_ForceReloadCoalesces ==
  /\ [](cluster.reload \in {0, 1})
  /\ [](cluster.forced >= 1 => cluster.reload = 1)
  /\ []((cluster.forced = 0 /\ cluster.checks >= 1) => cluster.reload = 0)
  /\ [][Checked =>
          /\ cluster'.reload = 0
          /\ cluster'.due = (cluster.reload = 1)
          /\ cluster.forced >= 1 => cluster'.due
          /\ (cluster.forced = 0 /\ cluster.checks >= 1) => ~cluster'.due]_vars

\* Two forceReload calls after a reload check cleared the flag.
C14_Witness ==
  /\ cluster.checks = 1
  /\ cluster.due
  /\ cluster.forced = 2
  /\ cluster.reload = 1

\* ----------------------------------------------------------- C15
\* Goroutine r is in Remove (called by its caller or by Put for a
\* connection with unread data), about to replace the connection r.cn.
Removing(r) == r.pc = "replace" /\ r.mode = "remove"

\* Goroutine r is in Remove, about to push the replacement r.cn.
Pushing(r) == r.op = "Remove" \/ (r.op = "Put" /\ r.unread)

\* C15: when Remove(c, reason) finds the registry open and the dial of
\* the replacement succeeds, c is closed and out of the registry, the
\* replacement is in it and Len() is what it was; Remove then pushes the
\* replacement, never c, and returns nil with a token sent on the free
\* channel.  A Get in its wait step does not time out while the channel
\* holds a token, and the one that receives the token pops a connection.
C15_RemoveReplaces ==
  /\ [][\A r \in Goroutines :
          (Removing(r) /\ ~listIsClosed /\ nextId' = nextId + 1
             /\ Step(r, [r EXCEPT !.pc = "push_app", !.cn = nextId,
                                   !.mode = "none"])) =>
            /\ Running'
            /\ r.cn \in connClosed' /\ r.cn \notin conns'
            /\ nextId \in conns' /\ nextId \notin connClosed'
            /\ nextId # r.cn
            /\ Cardinality(conns') = Cardinality(conns)
            /\ ListLen' = ListLen
            /\ UNCHANGED <<cns, free>>]_vars
  /\ [][\A r \in Goroutines :
          (Pushing(r) /\ r.pc = "push_app" /\ Step(r, [r EXCEPT !.pc = "push_send"])) =>
            /\ cns' = Append(cns, r.cn)
            /\ r.cn \notin Range(cns)]_vars
  /\ [][(ret'.op \in {"Remove", "Put"} /\ ret'.dialed = "ok") =>
          /\ ret'.err = ""
          /\ free' = free + 1
          /\ FreeLen' >= 1]_vars
  /\ [][(ret'.op = "Get" /\ ret'.err = "timeout") => free = 0]_vars
  /\ [](\A r \in Goroutines : r.pc = "take" => cns # <<>>)

\* With capacity 1, a Get waits while another caller holds connection 1;
\* that caller removes it, and the waiting Get returns the replacement.
C15_Witness ==
  /\ max = 1 /\ ~idleOn /\ ~closed
  /\ ret.op = "Get" /\ ret.waited /\ ret.err = ""
  /\ ret.cn = 2
  /\ 1 \in connClosed
  /\ conns = {2}
  /\ ListLen = 1

\* ----------------------------------------------------------- C16
\* A Get in its wait step.
Waiting(r) == r.op = "Get" /\ r.pc = "pop" /\ r.mode = "wait"

\* C16: when Remove(c, reason) finds the registry open and the dial of
\* the replacement fails, by the dialer or by the rate limiter, Remove
\* returns that error, c is closed and out of the registry, Len() is one
\* less, and nothing is pushed: the free list and its channel are as they
\* were, so no waiting Get receives a token from this Remove.
C16_RemoveDialFails ==
  /\ [][\A r \in Goroutines :
          (Removing(r) /\ ~listIsClosed /\ nextId' = nextId
             /\ Step(r, Returned(r, Nil))) =>
            /\ Running'
            /\ ret'.op \in {"Remove", "Put"}
            /\ ret'.err \in {"ratelimit", "dial"}
            /\ ret'.err = ret'.dialed
            /\ ret'.cn = Nil
            /\ r.cn \in connClosed' /\ r.cn \notin conns'
            /\ conns' = conns \ {r.cn}
            /\ ListLen' = ListLen - 1
            /\ FreeLen' = FreeLen
            /\ UNCHANGED <<cns, free>>
            /\ \A w \in Goroutines : Waiting(w) => w \in BagToSet(proc')]_vars
  /\ [][(ret'.op \in {"Remove", "Put"} /\ ret'.dialed \in {"ratelimit", "dial"}) =>
          UNCHANGED <<cns, free>>]_vars

\* Remove of the only connection returned the dialer's error while a Get
\* waits: the registry is empty and the channel holds no token.
C16_Witness ==
  /\ ~closed
  /\ ret.op = "Remove" /\ ret.err = "dial"
  /\ 1 \in connClosed
  /\ conns = {} /\ ListLen = 0 /\ FreeLen = 0
  /\ \E w \in Goroutines : Waiting(w)

\* ----------------------------------------------------------- C17
\* Goroutine r is in Get with a place reserved, about to dial.
Dialing(r) == r.op = "Get" /\ r.pc = "g_new"

\* Get returns from its reserve-and-dial branch after a failed dial, and
\* after a successful one.
DialFailed(r) == Dialing(r) /\ nextId' = nextId /\ Step(r, Returned(r, Nil))
DialDone(r) == Dialing(r) /\ nextId' = nextId + 1 /\ Step(r, Returned(r, nextId))

\* C17 as stated: from its reserve-and-dial branch Get returns, when the
\* dial fails, the error with no connection and isNew = false, with the
\* reserved place given back; when the dial succeeds, the registered
\* connection with isNew = true.
C17_AsStated ==
  [][\A r \in Goroutines :
       /\ DialFailed(r) =>
            /\ ret'.err \in {"ratelimit", "dial"} /\ ret'.err = ret'.dialed
            /\ ret'.cn = Nil
            /\ ret'.isNew = FALSE
            /\ ListLen' = ListLen - 1
       /\ DialDone(r) =>
            /\ ret'.err = "" /\ ret'.cn = nextId /\ nextId \in conns'
            /\ ret'.isNew = TRUE]_vars

\* C17, what the code does: the same, but for isNew, which is true on
\* both returns of the branch.
C17_DialBranch ==
  [][\A r \in Goroutines :
       /\ DialFailed(r) =>
            /\ ret'.err \in {"ratelimit", "dial"} /\ ret'.err = ret'.dialed
            /\ ret'.cn = Nil
            /\ ret'.isNew = TRUE
            /\ ListLen' = ListLen - 1
            /\ UNCHANGED <<conns, cns, free>>
       /\ DialDone(r) =>
            /\ ret'.err = "" /\ ret'.cn = nextId /\ nextId \in conns'
            /\ ret'.isNew = TRUE
            /\ ListLen' = ListLen]_vars

\* The first Get on an empty pool returned the dialer's error.
C17_Witness ==
  /\ ret.op = "Get" /\ ret.err = "dial" /\ ret.cn = Nil /\ ret.isNew
  /\ getCalls = 1
  /\ conns = {} /\ ListLen = 0

\* ----------------------------------------------------------- C18
\* Goroutine r is in Get, in First or wait, about to replace the idle
\* connection r.cn that it popped.
Replacing(r) ==
  r.op = "Get" /\ r.pc = "replace" /\ r.mode \in {"first", "wait"}

\* C18: with an idle timeout, Get returns no connection that was idle
\* for longer than the timeout when First or wait popped it.  With the
\* registry open, such a connection is closed and leaves the registry; a
\* freshly dialed one takes its place, Len() unchanged, and is what Get
\* returns; when that dial fails, Len() is one less, Get does not return
\* but pops again, and the dial's error is returned by no Get other than
\* one that dialed for a place of its own.
C18_IdleReplaced ==
  /\ []((ret.op = "Get" /\ ret.cn # Nil) => ~isIdle(ret.cn))
  /\ []((ret.op = "Get" /\ ret.cn # Nil) => ret.cn \notin stale)
  /\ [](\A r \in Goroutines : Replacing(r) => (idleOn /\ r.cn \in stale))
  /\ [][\A r \in Goroutines :
          (Replacing(r) /\ ~listIsClosed
             /\ (Step(r, Returned(r, nextId))
                   \/ Step(r, [r EXCEPT !.pc = "pop", !.cn = Nil]))) =>
            /\ r.cn \in connClosed' /\ r.cn \notin conns'
            /\ IF nextId' = nextId + 1
               THEN /\ conns' = (conns \ {r.cn}) \cup {nextId}
                    /\ ListLen' = ListLen
                    /\ ret'.op = "Get" /\ ret'.cn = nextId
                    /\ ret'.err = "" /\ ret'.isNew = FALSE
               ELSE /\ conns' = conns \ {r.cn}
                    /\ ListLen' = ListLen - 1
                    /\ UNCHANGED <<cns, free>>
                    /\ ret' = NoRet]_vars
  /\ [][(ret'.op = "Get" /\ ret'.err \in {"ratelimit", "dial"}) =>
          \E r \in Goroutines : DialFailed(r)]_vars

\* Connection 1 was put back and went idle; the next Get popped it and
\* returned its replacement 2.
C18_Witness ==
  /\ idleOn /\ ~closed
  /\ ret.op = "Get" /\ ret.cn = 2 /\ ret.dialed = "ok" /\ ~ret.isNew
  /\ 1 \in stale /\ 1 \in connClosed
  /\ conns = {2} /\ ListLen = 1

\* ----------------------------------------------------------- C19
\* The Close call that performed the shutdown returns.
ShutDown ==
  \E r \in Goroutines : r.pc = "c_close" /\ Step(r, Returned(r, r.held))

\* C19 as stated: the Close that performs the shutdown closes every
\* connection still registered, also when the Close of some of them fails,
\* leaves Len() = 0, and returns the first close error it met, nil when it
\* met none.
C19_AsStated ==
  [][ShutDown =>
       /\ conns \subseteq connClosed' /\ conns' = {}
       /\ ListLen' = 0
       /\ ret'.op = "Close"
       /\ ret'.err = IF ret'.closeErrs = <<>> THEN ""
                     ELSE CloseErr(ret'.closeErrs[1])]_vars

\* C19, what the code does: the same, but the error returned is the last
\* close error met.
C19_LastCloseError ==
  [][ShutDown =>
       /\ conns \subseteq connClosed' /\ conns' = {}
       /\ ListLen' = 0
       /\ ret'.op = "Close"
       /\ Range(ret'.closeErrs) \subseteq conns
       /\ ret'.err = IF ret'.closeErrs = <<>> THEN ""
                     ELSE CloseErr(Last(ret'.closeErrs))]_vars

\* The shutdown met two failing connections and returned the error of the
\* second.
C19_Witness ==
  /\ ret.op = "Close" /\ listClosed /\ ListLen = 0
  /\ Len(ret.closeErrs) = 2
  /\ ret.err = CloseErr(ret.closeErrs[2])
  /\ ret.err # CloseErr(ret.closeErrs[1])
  /\ Range(ret.closeErrs) \subseteq connClosed

\* ----------------------------------------------------------- C20
\* C20 as stated: in no interleaving of Get, Put, Remove, reaper ticks
\* and Close, by callers that hand back each connection once at most,
\* does an operation panic or Len() go below zero.
C20_AsStated == Running /\ ListLen >= 0

\* C20, what the code does: until connList.Close has run no operation
\* panics and Len() is not negative; the registry never panics with
\* "conn not found" and the free list never pops from an empty slice.
\* After connList.Close a Get that passed its closed test before may
\* panic in connList.Add or take Len() below zero.
C20_SafeUntilShutdown ==
  /\ fault \in {"none", "assignment to entry in nil map"}
  /\ ~listIsClosed => (Running /\ ListLen >= 0)
  /\ ~Running => (closed /\ listIsClosed)
  /\ ListLen < 0 => (closed /\ listIsClosed /\ conns = {})

\* Len() reads -1 after the shutdown: a Get that had reserved a place
\* before connList.Close stored 0 gave it back after a failed dial.
C20_Witness ==
  /\ Running /\ listIsClosed
  /\ ListLen = -1
  /\ ret.op = "Get" /\ ret.err = "dial" /\ ret.cn = Nil
====
